---- MODULE Spec2Model ----
(***************************************************************************)
(* Fixed-size hash values (src/hash.rs): the impl_hash! family H32 ..      *)
(* H2048, their bloom embedding, slice/integer/text constructors and the   *)
(* cross-width conversions.                                                *)
(*                                                                         *)
(* A value of width W is a sequence of W bytes (integers 0..255); the      *)
(* source's index i is position i + 1 of the sequence.  A u64 is held as   *)
(* its eight base-256 digits, least significant first, so that shifts,     *)
(* masks and ORs by whole bytes are exact.                                 *)
(***************************************************************************)
EXTENDS Integers, Sequences, FiniteSets, TLC

VARIABLES
    filter,     \* the value a bloom operation is called on (self), or <<>>
    pool,       \* the items the caller holds (all of one width)
    inserted,   \* history: the items shift_bloomed / with_bloomed merged in
    inp,        \* the input of a pure-function run, drawn by Init
    call,       \* the last call: its operation, arguments, outcome, result
    pc          \* "run", or "aborted" once an assertion has ended the process

vars == <<filter, pool, inserted, inp, call, pc>>

\* ------------------------------------------------------------------ bounds

\* heads of the items a filter run holds
NumHeads == 3
\* log2 is applied to 0 .. MaxX
MaxX == 2100
\* slices are up to MaxExtra bytes long, or within MaxExtra bytes of the width
MaxExtra == 2
\* byte patterns 0 .. MaxSeed fill the inputs of the pure functions
MaxSeed == 2

\* ------------------------------------------------------------ bytes, bits

\* impl_hash!(H32, 4) .. impl_hash!(H2048, 256)
Sizes == {4, 8, 16, 20, 32, 33, 64, 65, 128, 256}

Byte == 0..255

Pow2(n) == 2^n

\* bit i of x
Bit(x, i) == (x \div Pow2(i)) % 2

\* x & y on machine integers, bit by bit
RECURSIVE AndInt(_, _)
AndInt(x, y) ==
    IF x = 0 \/ y = 0 THEN 0
    ELSE (x % 2) * (y % 2) + 2 * AndInt(x \div 2, y \div 2)

\* x | y on machine integers, bit by bit
RECURSIVE OrInt(_, _)
OrInt(x, y) ==
    IF x = 0 THEN y
    ELSE IF y = 0 THEN x
    ELSE (IF x % 2 = 1 \/ y % 2 = 1 THEN 1 ELSE 0) + 2 * OrInt(x \div 2, y \div 2)

\* x ^ y on machine integers, bit by bit
RECURSIVE XorInt(_, _)
XorInt(x, y) ==
    IF x = 0 THEN y
    ELSE IF y = 0 THEN x
    ELSE ((x + y) % 2) + 2 * XorInt(x \div 2, y \div 2)

\* u8 | u8, u8 & u8 and u8 ^ u8, tabulated
OrByte == [a \in Byte |-> [b \in Byte |-> OrInt(a, b)]]
AndByte == [a \in Byte |-> [b \in Byte |-> AndInt(a, b)]]
XorByte == [a \in Byte |-> [b \in Byte |-> XorInt(a, b)]]

\* $from::new() / zero(): [0; $size]
new(size) == [i \in 1..size |-> 0]

\* ------------------------------------------------------------------- log2

UsizeBytes == 8

RECURSIVE BitLength(_)
BitLength(x) == IF x = 0 THEN 0 ELSE 1 + BitLength(x \div 2)

\* usize::leading_zeros
leading_zeros(x) == UsizeBytes * 8 - BitLength(x)

log2(x) ==
    IF x <= 1 THEN 0
    ELSE LET n == leading_zeros(x)
         IN  UsizeBytes * 8 - n

\* --------------------------------------------------------------- bitwise

\* &a | &b
bitor(a, b) == [i \in 1..Len(a) |-> OrByte[a[i]][b[i]]]

\* &a & &b
bitand(a, b) == [i \in 1..Len(a) |-> AndByte[a[i]][b[i]]]

\* &a ^ &b
bitxor(a, b) == [i \in 1..Len(a) |-> XorByte[a[i]][b[i]]]

\* PartialEq::eq
eq(a, b) == \A i \in 1..Len(a) : a[i] = b[i]

\* contains that asks for a common bit only: (b & self) != 0
contains_any(self, b) == ~ eq(bitand(b, self), new(Len(self)))

\* self.contains(b): &(b & self) == b
contains(self, b) == eq(bitand(b, self), b)

\* ------------------------------------------------------------------ bloom

\* a call that returned v, and a call an assertion or an index check ended
Ok(v) == [ok |-> TRUE, ret |-> v]
Panic == [ok |-> FALSE, ret |-> <<>>]

\* let p = 3
p == 3

\* (log2(bloom_bits) + 7) / 8
bloom_bytes(m) == (log2(m * 8) + 7) \div 8

\* the inner loop: index = (index << 8) | self.0[ptr], bloom_bytes times
RECURSIVE SampleIndex(_, _, _, _)
SampleIndex(self, ptr, n, index) ==
    IF n = 0 THEN index
    ELSE SampleIndex(self, ptr + 1, n - 1, OrInt(index * 256, self[ptr + 1]))

\* BloomLoop with the target bytes counted from the front: ret[index / 8]
RECURSIVE BloomLoopForward(_, _, _, _, _)
BloomLoopForward(self, m, j, ptr, ret) ==
    IF j = p THEN Ok(ret)
    ELSE LET nb    == bloom_bytes(m)
             index == AndInt(SampleIndex(self, ptr, nb, 0), m * 8 - 1)
             k     == index \div 8
         IN  IF k < 0 \/ k >= Len(ret) THEN Panic
             ELSE BloomLoopForward(self, m, j + 1, ptr + nb,
                                   [ret EXCEPT ![k + 1] = OrInt(@, Pow2(index % 8))])

\* the outer loop, from sample j on: index &= mask;
\* ret[m - 1 - index / 8] |= 1 << (index % 8).  Indexing outside ret panics.
RECURSIVE BloomLoop(_, _, _, _, _)
BloomLoop(self, m, j, ptr, ret) ==
    IF j = p THEN Ok(ret)
    ELSE LET nb    == bloom_bytes(m)
             index == AndInt(SampleIndex(self, ptr, nb, 0), m * 8 - 1)
             k     == m - 1 - index \div 8
         IN  IF k < 0 \/ k >= Len(ret) THEN Panic
             ELSE BloomLoop(self, m, j + 1, ptr + nb,
                            [ret EXCEPT ![k + 1] = OrInt(@, Pow2(index % 8))])

\* bloom_part without its assert_eq!(m & (m - 1), 0)
bloom_part_any_width(self, m, tlen) ==
    IF ~(p * bloom_bytes(m) <= Len(self)) THEN Panic
    ELSE BloomLoop(self, m, 0, 0, new(tlen))

\* self.bloom_part::<T>(m), self of width Len(self) and T of width tlen
bloom_part(self, m, tlen) ==
    IF AndInt(m, m - 1) # 0 THEN Panic
    ELSE IF ~(p * bloom_bytes(m) <= Len(self)) THEN Panic
    ELSE BloomLoop(self, m, 0, 0, new(tlen))

\* shift_bloomed that stores the item's encoding without the OR with self
shift_bloomed_overwrite(self, b) ==
    LET merge(bp) == IF bp.ok THEN Ok(bp.ret) ELSE Panic
    IN  merge(bloom_part(b, Len(self), Len(self)))

\* self.shift_bloomed(b): the new self
shift_bloomed(self, b) ==
    LET merge(bp) == IF bp.ok THEN Ok(bitor(bp.ret, self)) ELSE Panic
    IN  merge(bloom_part(b, Len(self), Len(self)))

\* self.contains_bloomed(b)
contains_bloomed(self, b) ==
    LET test(bp) == IF bp.ok THEN Ok(contains(self, bp.ret)) ELSE Panic
    IN  test(bloom_part(b, Len(self), Len(self)))

\* $from::from_bloomed(b), $from of width size
from_bloomed(size, b) == bloom_part(b, size, size)

\* ------------------------------------------------------- bloom: the run

\* the bytes of an item past its head, and of a filter that is not empty
Fill(i) == (i * 11 + 5) % 256

\* six leading bytes: all zero for k = 1 (the three samples collide)
ItemHead(k) == [i \in 1..6 |-> ((k - 1) * (17 + 29 * i + 7 * i * i)) % 256]

\* an item of width w that starts with head
MkItem(w, head) == [i \in 1..w |-> IF i <= Len(head) THEN head[i] ELSE Fill(i)]

StartFilters(m) == {new(m), [i \in 1..m |-> Fill(i)]}

NoCall == [op |-> "none", item |-> <<>>, ok |-> TRUE, ret |-> <<>>,
           before |-> <<>>, bloom_bytes |-> 0]

\* the record of a bloom call on the filter as it was, with result r
BloomCall(op, b, r) ==
    [op |-> op, item |-> b, ok |-> r.ok, ret |-> r.ret,
     before |-> filter, bloom_bytes |-> bloom_bytes(Len(filter))]

\* a process that owns one filter of width m and items of width w
InitBloom ==
    /\ \E m \in Sizes : filter \in StartFilters(m)
    /\ \E w \in Sizes : pool = {MkItem(w, ItemHead(k)) : k \in 1..NumHeads}
    /\ inserted = {}
    /\ inp = <<>>
    /\ call = NoCall
    /\ pc = "run"

\* filter.shift_bloomed(&b)
ShiftBloomed ==
    /\ pc = "run"
    /\ \E b \in pool :
         \E r \in {shift_bloomed(filter, b)} :
             /\ call' = BloomCall("shift_bloomed", b, r)
             /\ IF r.ok
                THEN /\ filter' = r.ret
                     /\ inserted' = inserted \cup {b}
                     /\ pc' = pc
                ELSE /\ pc' = "aborted"
                     /\ UNCHANGED <<filter, inserted>>
    /\ UNCHANGED <<pool, inp>>

\* filter = filter.with_bloomed(&b): self is taken by value, merged and returned
WithBloomed ==
    /\ pc = "run"
    /\ \E b \in pool :
         \E r \in {shift_bloomed(filter, b)} :
             /\ call' = BloomCall("with_bloomed", b, r)
             /\ IF r.ok
                THEN /\ filter' = r.ret
                     /\ inserted' = inserted \cup {b}
                     /\ pc' = pc
                ELSE /\ pc' = "aborted"
                     /\ UNCHANGED <<filter, inserted>>
    /\ UNCHANGED <<pool, inp>>

\* filter.contains_bloomed(&b)
ContainsBloomed ==
    /\ pc = "run"
    /\ \E b \in pool :
         \E r \in {contains_bloomed(filter, b)} :
             /\ call' = BloomCall("contains_bloomed", b, r)
             /\ pc' = IF r.ok THEN pc ELSE "aborted"
    /\ UNCHANGED <<filter, pool, inserted, inp>>

\* F::from_bloomed(&b), F the filter's type
FromBloomed ==
    /\ pc = "run"
    /\ \E b \in pool :
         \E r \in {from_bloomed(Len(filter), b)} :
             /\ call' = BloomCall("from_bloomed", b, r)
             /\ pc' = IF r.ok THEN pc ELSE "aborted"
    /\ UNCHANGED <<filter, pool, inserted, inp>>

\* b.bloom_part::<F>(F::len()), F the filter's type: the target type's width
\* is the m passed, as in every caller (shift_bloomed, contains_bloomed,
\* from_bloomed)
BloomPart ==
    /\ pc = "run"
    /\ \E b \in pool :
         \E r \in {bloom_part(b, Len(filter), Len(filter))} :
             /\ call' = BloomCall("bloom_part", b, r)
             /\ pc' = IF r.ok THEN pc ELSE "aborted"
    /\ UNCHANGED <<filter, pool, inserted, inp>>

NextBloom ==
    \/ ShiftBloomed
    \/ WithBloomed
    \/ ContainsBloomed
    \/ FromBloomed
    \/ BloomPart

SpecBloom == InitBloom /\ [][NextBloom]_vars

\* a single call of the encoder on one item whose six leading bytes are drawn
\* from SampleBytes; F is the type of width m, and a value of it holds bytes
\* that the fresh encoding must not pick up
SampleBytes == {0, 7, 255}

InitBloomPart ==
    /\ \E m \in Sizes : filter = [i \in 1..m |-> Fill(i)]
    /\ \E w \in Sizes, head \in [1..6 -> SampleBytes] : pool = {MkItem(w, head)}
    /\ inserted = {}
    /\ inp = <<>>
    /\ call = NoCall
    /\ pc = "run"

NextBloomPart ==
    \/ FromBloomed
    \/ BloomPart

SpecBloomPart == InitBloomPart /\ [][NextBloomPart]_vars

\* ------------------------------------------------------- bloom: claims

\* x is a power of two (x = 2^k for some k >= 0)
IsPow2(x) == \E k \in 0..30 : x = 2^k

\* the k with 2^k = x, for a power of two x
ExactLog2(x) == CHOOSE k \in 0..30 : 2^k = x

CeilDiv(a, b) == (a + b - 1) \div b

\* the big-endian unsigned integer of a byte sequence
RECURSIVE BigEndian(_)
BigEndian(bytes) ==
    IF bytes = <<>> THEN 0
    ELSE bytes[Len(bytes)] + 256 * BigEndian(SubSeq(bytes, 1, Len(bytes) - 1))

\* the number of set bits of a value
PopCount(v) ==
    LET nz == {i \in 1..Len(v) : v[i] # 0}
        bits == {<<i, t>> \in nz \X (0..7) : Bit(v[i], t) = 1}
    IN  Cardinality(bits)

\* the byte whose set bits are the positions in ts
RECURSIVE BitSum(_)
BitSum(ts) ==
    IF ts = {} THEN 0
    ELSE LET t == CHOOSE t \in ts : TRUE IN Pow2(t) + BitSum(ts \ {t})

\* the positions of the set bits of each byte
BitsOf == [x \in Byte |-> {t \in 0..7 : Bit(x, t) = 1}]

\* every bit set in a is set in b
BitsSubset(a, b) == \A i \in 1..Len(a) : BitsOf[a[i]] \subseteq BitsOf[b[i]]

IsInsert(op) == op \in {"shift_bloomed", "with_bloomed"}

\* C1: every item merged into the filter by shift_bloomed / with_bloomed tests
\* as contained from then on, whatever was merged after it, and the last
\* insertion cleared no bit the filter had before it.
C1_InsertImpliesContains ==
    /\ \A b \in inserted :
         \E r \in {contains_bloomed(filter, b)} : r.ok /\ r.ret
    /\ IsInsert(call.op) /\ call.ok =>
         /\ call.item \in inserted
         /\ BitsSubset(call.before, filter)

\* C1 witness: an item went in first, another one after it, into a filter that
\* did not start empty
C1_Witness ==
    /\ IsInsert(call.op) /\ call.ok
    /\ Cardinality(inserted) >= 2
    /\ \E b \in inserted : b # call.item /\ ~ BitsSubset(filter, call.before)
    /\ PopCount(filter) > 3 * Cardinality(inserted)

C3_SampleBytes ==
    call.op # "none" /\ call.ok /\ IsPow2(Len(filter)) =>
        /\ call.bloom_bytes = CeilDiv(ExactLog2(Len(filter) * 8), 8)
        /\ call.bloom_bytes = IF Len(filter) * 8 <= 256 THEN 1 ELSE 2

NoBloom ==
    /\ filter = <<>>
    /\ pool = {}
    /\ inserted = {}

InitLog2 ==
    /\ NoBloom
    /\ inp \in [x : 0..MaxX]
    /\ call = [op |-> "none"]
    /\ pc = "run"

\* log2(x)
Log2 ==
    /\ pc = "run"
    /\ call' = [op |-> "log2", ret |-> log2(inp.x)]
    /\ UNCHANGED <<filter, pool, inserted, inp, pc>>

NextLog2 == Log2

SpecLog2 == InitLog2 /\ [][NextLog2]_vars

\* C10: log2(x) is the base-2 logarithm: k for x = 2^k, floor(log2(x)) for
\* every x >= 1, and 0 for x = 0.
C10_Log2 ==
    call.op = "log2" =>
        /\ IsPow2(inp.x) => call.ret = ExactLog2(inp.x)
        /\ inp.x >= 1 => 2^call.ret <= inp.x /\ inp.x < 2^(call.ret + 1)
        /\ inp.x = 0 => call.ret = 0

\* ------------------------------------------------------------ byte slices

Min(a, b) == IF a < b THEN a ELSE b

\* n bytes of pattern seed: all zero for seed 0, no zero byte otherwise
Pattern(n, seed) ==
    [i \in 1..n |-> IF seed = 0 THEN 0 ELSE 1 + ((seed * 83 + i * (2 * seed + 5)) % 255)]

\* self.clone_from_slice(src): the new self and the count returned
clone_from_slice(self, src) ==
    LET min == Min(Len(self), Len(src))
    IN  [self |-> [i \in 1..Len(self) |-> IF i <= min THEN src[i] ELSE self[i]],
         ret  |-> min]

\* from_slice that fills the whole value, reading src cyclically
from_slice_cyclic(size, src) ==
    [i \in 1..size |-> IF src = <<>> THEN 0 ELSE src[((i - 1) % Len(src)) + 1]]

\* $from::from_slice(src), $from of width size
from_slice(size, src) == clone_from_slice(new(size), src).self

\* self.copy_to(dest): the new dest
copy_to(self, dest) ==
    LET min == Min(Len(self), Len(dest))
    IN  [i \in 1..Len(dest) |-> IF i <= min THEN self[i] ELSE dest[i]]

SliceLens(size) == (0..MaxExtra) \cup ((size - MaxExtra)..(size + MaxExtra))

\* a type of width size, a source slice, a destination buffer and a value
InitSlice ==
    /\ NoBloom
    /\ \E size \in Sizes : \E n \in SliceLens(size), d \in SliceLens(size),
                              s1 \in 1..MaxSeed, s2 \in 0..MaxSeed :
         inp = [size |-> size, src |-> Pattern(n, s1),
                dest |-> Pattern(d, s2 + 3), self |-> Pattern(size, s2 + 5)]
    /\ call = [op |-> "none"]
    /\ pc = "run"

\* let v = $from::from_slice(src)
FromSlice ==
    /\ pc = "run"
    /\ call' = [op |-> "from_slice", self |-> from_slice(inp.size, inp.src),
                dest |-> inp.dest, ret |-> 0]
    /\ UNCHANGED <<filter, pool, inserted, inp, pc>>

\* self.clone_from_slice(src) on a value that holds other bytes
CloneFromSlice ==
    /\ pc = "run"
    /\ \E r \in {clone_from_slice(inp.self, inp.src)} :
         call' = [op |-> "clone_from_slice", self |-> r.self,
                  dest |-> inp.dest, ret |-> r.ret]
    /\ UNCHANGED <<filter, pool, inserted, inp, pc>>

\* v.copy_to(dest), v the value the last constructor gave
CopyTo ==
    /\ pc = "run"
    /\ call.op \in {"from_slice", "clone_from_slice"}
    /\ call' = [op |-> "copy_to", self |-> call.self,
                dest |-> copy_to(call.self, call.dest), ret |-> 0,
                via |-> call.op]
    /\ UNCHANGED <<filter, pool, inserted, inp, pc>>

NextSlice ==
    \/ FromSlice
    \/ CloneFromSlice
    \/ CopyTo

SpecSlice == InitSlice /\ [][NextSlice]_vars

\* C5: from_slice copies the first min(W, n) source bytes and leaves the other
\* bytes zero; copy_to writes the first min(W, d) bytes of the value and leaves
\* the rest of the destination as it was; so copy_to(from_slice(bytes)) gives
\* back a W-byte sequence bytes.
C5_SliceRoundTrip ==
    LET W == inp.size
        n == Len(inp.src)
        d == Len(inp.dest)
    IN  /\ call.op = "from_slice" =>
             /\ Len(call.self) = W
             /\ SubSeq(call.self, 1, Min(W, n)) = SubSeq(inp.src, 1, Min(W, n))
             /\ \A i \in (Min(W, n) + 1)..W : call.self[i] = 0
        /\ call.op = "copy_to" =>
             /\ Len(call.dest) = d
             /\ SubSeq(call.dest, 1, Min(W, d)) = SubSeq(call.self, 1, Min(W, d))
             /\ \A i \in (Min(W, d) + 1)..d : call.dest[i] = inp.dest[i]
        /\ call.op = "copy_to" /\ call.via = "from_slice" /\ n = W /\ d = W =>
             call.dest = inp.src

\* C5 witness: a full-width round trip over a destination that held other bytes
C5_Witness ==
    /\ call.op = "copy_to" /\ call.via = "from_slice"
    /\ Len(inp.src) = inp.size /\ Len(inp.dest) = inp.size
    /\ inp.dest # inp.src
    /\ call.dest = inp.src
    /\ inp.size = 33

\* -------------------------------------------------------------------- u64

\* a u64 is its eight base-256 digits, least significant first
U64Zero == [i \in 1..8 |-> 0]

\* value & 0xff
LowByte(value) == value[1]

\* value >> 8
Shr8(value) == [i \in 1..8 |-> IF i < 8 THEN value[i + 1] ELSE 0]

\* ret | ((byte as u64) << (i * 8)), i in 0..8
OrShifted(ret, byte, i) == [ret EXCEPT ![i + 1] = OrInt(@, byte)]

\* From<u64>: the loop from i on
RECURSIVE FromU64Loop(_, _, _, _)
FromU64Loop(size, i, value, ret) ==
    IF i = 8 THEN ret
    ELSE IF i < size
         THEN FromU64Loop(size, i + 1, Shr8(value),
                          [ret EXCEPT ![size - i - 1 + 1] = LowByte(value)])
         ELSE FromU64Loop(size, i + 1, value, ret)

\* From<u64> that packs the integer into the leading bytes
from_u64_left(size, value) ==
    [i \in 1..size |-> IF i <= Min(size, 8) THEN value[Min(size, 8) - i + 1] ELSE 0]

\* $from::from(value: u64), $from of width size
from_u64(size, value) == FromU64Loop(size, 0, value, new(size))

\* low_u64: the loop from i on
RECURSIVE LowU64Loop(_, _, _)
LowU64Loop(self, i, ret) ==
    IF i = Min(Len(self), 8) THEN ret
    ELSE LowU64Loop(self, i + 1, OrShifted(ret, self[Len(self) - 1 - i + 1], i))

\* self.low_u64()
low_u64(self) == LowU64Loop(self, 0, U64Zero)

\* the digits of 0x1234567890abcdef (tests::from_u64), least significant first
TestDigits == <<239, 205, 171, 144, 120, 86, 52, 18>>

\* the integers whose digit i is 0, 255 or that of the test value
U64Values ==
    {[i \in 1..8 |-> IF i \in S THEN TestDigits[i] ELSE IF i \in T THEN 255 ELSE 0] :
        S \in SUBSET (1..8), T \in {{}, {1, 4}, {8}}}

InitU64 ==
    /\ NoBloom
    /\ \E size \in Sizes, value \in U64Values, seed \in 1..MaxSeed :
         inp = [size |-> size, value |-> value, self |-> Pattern(size, seed)]
    /\ call = [op |-> "none"]
    /\ pc = "run"

\* let h = $from::from(value)
FromU64 ==
    /\ pc = "run"
    /\ call' = [op |-> "from_u64", self |-> from_u64(inp.size, inp.value),
                ret |-> U64Zero]
    /\ UNCHANGED <<filter, pool, inserted, inp, pc>>

\* h.low_u64(), h the value From<u64> gave, or a value of other bytes
LowU64 ==
    /\ pc = "run"
    /\ \E self \in IF call.op = "from_u64" THEN {call.self, inp.self} ELSE {inp.self} :
         call' = [op |-> "low_u64", self |-> self, ret |-> low_u64(self),
                  via |-> IF self = inp.self THEN "none" ELSE call.op]
    /\ UNCHANGED <<filter, pool, inserted, inp, pc>>

NextU64 ==
    \/ FromU64
    \/ LowU64

SpecU64 == InitU64 /\ [][NextU64]_vars

\* C6: From<u64> packs v big-endian into the last min(W, 8) bytes, the leading
\* bytes zero and the high bytes of v that do not fit dropped; low_u64 reads
\* the last min(W, 8) bytes as a big-endian integer, so low_u64(from(v)) is v
\* for W >= 8 and v mod 2^(8 W) for W < 8.  (Digit i of a u64 weighs 256^i.)
C6_U64RoundTrip ==
    LET W == inp.size
        k == Min(W, 8)
        v == inp.value
    IN  /\ call.op = "from_u64" =>
             /\ Len(call.self) = W
             /\ \A i \in 1..(W - k) : call.self[i] = 0
             /\ \A i \in 0..(k - 1) : call.self[W - i] = v[i + 1]
        /\ call.op = "low_u64" =>
             /\ \A i \in 0..(k - 1) : call.ret[i + 1] = call.self[W - i]
             /\ \A i \in k..7 : call.ret[i + 1] = 0
        /\ call.op = "low_u64" /\ call.via = "from_u64" =>
             /\ W >= 8 => call.ret = v
             /\ W < 8 => call.ret = [i \in 1..8 |-> IF i <= W THEN v[i] ELSE 0]

\* C6 witness: the test's H32::from(0x1234567890abcdef), read back as 0x90abcdef
C6_Witness ==
    /\ call.op = "low_u64" /\ call.via = "from_u64"
    /\ inp.size = 4
    /\ inp.value = TestDigits
    /\ call.self = <<144, 171, 205, 239>>
    /\ call.ret = <<239, 205, 171, 144, 0, 0, 0, 0>>

\* ---------------------------------------------------------- bitwise: runs

\* values of width size: zero, all ones and the patterns
BitPatterns(size) ==
    {Pattern(size, seed) : seed \in 0..MaxSeed} \cup {[i \in 1..size |-> 255]}

\* the patterns, and the AND and the OR of any two
BitValues(size) ==
    LET pats == BitPatterns(size)
    IN  pats \cup {bitand(x, y) : x, y \in pats} \cup {bitor(x, y) : x, y \in pats}

InitBits ==
    /\ NoBloom
    /\ \E size \in Sizes : \E a, b \in BitValues(size), c \in BitPatterns(size) :
         inp = [a |-> a, b |-> b, c |-> c]
    /\ call = [op |-> "none"]
    /\ pc = "run"

\* &x | &y for x in {a, b}, y in {b, c}
BitOr ==
    /\ pc = "run"
    /\ \E x \in {inp.a, inp.b}, y \in {inp.b, inp.c} :
         call' = [op |-> "bitor", x |-> x, y |-> y, ret |-> bitor(x, y)]
    /\ UNCHANGED <<filter, pool, inserted, inp, pc>>

\* &x & &y
BitAnd ==
    /\ pc = "run"
    /\ \E x \in {inp.a}, y \in {inp.b} :
         call' = [op |-> "bitand", x |-> x, y |-> y, ret |-> bitand(x, y)]
    /\ UNCHANGED <<filter, pool, inserted, inp, pc>>

\* x.contains(&y): x is a, or the value the last | gave; y is a or b
Contains ==
    /\ pc = "run"
    /\ \E x \in IF call.op = "bitor" THEN {call.ret} ELSE {inp.a},
          y \in {inp.a, inp.b} :
         call' = [op |-> "contains", x |-> x, y |-> y, ret |-> contains(x, y),
                  via |-> IF call.op = "bitor" THEN <<call.x, call.y>> ELSE <<>>]
    /\ UNCHANGED <<filter, pool, inserted, inp, pc>>

NextBits ==
    \/ BitOr
    \/ BitAnd
    \/ Contains

SpecBits == InitBits /\ [][NextBits]_vars

\* C8: contains(a, b) holds iff every bit set in b is set in a, that is iff
\* (a AND b) = b; contains(a|b, a) and contains(a|b, b) hold; and contains
\* is monotone under OR: contains(a, b) implies contains(a|c, b).
C8_Contains ==
    /\ call.op = "bitand" =>
         \A i \in 1..Len(call.x) :
            BitsOf[call.ret[i]] = BitsOf[call.x[i]] \cap BitsOf[call.y[i]]
    /\ call.op = "bitor" =>
         \A i \in 1..Len(call.x) :
            BitsOf[call.ret[i]] = BitsOf[call.x[i]] \cup BitsOf[call.y[i]]
    /\ call.op = "contains" =>
         /\ call.ret <=> BitsSubset(call.y, call.x)
         /\ call.ret <=>
              \A i \in 1..Len(call.x) :
                 BitsOf[call.x[i]] \cap BitsOf[call.y[i]] = BitsOf[call.y[i]]
    /\ call.op = "contains" /\ call.via # <<>> =>
         /\ call.y \in {call.via[1], call.via[2]} => call.ret
         /\ BitsSubset(call.y, call.via[1]) \/ BitsSubset(call.y, call.via[2])
               => call.ret

\* C8 witness: a contains b, and so does a | c, a value other than a; b is not
\* zero and is neither a nor c
C8_Witness ==
    /\ call.op = "contains" /\ call.via # <<>>
    /\ call.ret
    /\ call.y \notin {call.via[1], call.via[2]}
    /\ call.y # new(Len(call.y))
    /\ BitsSubset(call.y, call.via[1])
    /\ call.x # call.via[1]
    /\ call.x # call.via[2]

\* ------------------------------------------------------------ conversions

\* From<H256> for Address that copies the leading 20 bytes: &value[0..20]
address_from_h256_prefix(value) == SubSeq(value, 1, 20)

\* From<H256> for Address: ret.0.copy_from_slice(&value[12..32])
address_from_h256(value) == SubSeq(value, 12 + 1, 32)

\* From<H256> for H64: ret.0.copy_from_slice(&value[20..28])
h64_from_h256(value) == SubSeq(value, 20 + 1, 28)

\* From<Address> for H256: ret.0[12..32].copy_from_slice(&value)
h256_from_address(value) ==
    [i \in 1..32 |-> IF i - 1 >= 12 /\ i - 1 < 32 THEN value[i - 12] ELSE new(32)[i]]

\* the address of tests::from_and_to_address: ef2d6d194084c2de36e0dabfce45d046b37d1106
TestAddress ==
    <<239, 45, 109, 25, 64, 132, 194, 222, 54, 224,
      218, 191, 206, 69, 208, 70, 179, 125, 17, 6>>

ConvSeeds == 0..(MaxSeed + 4)

InitConv ==
    /\ NoBloom
    /\ \E a \in {Pattern(20, seed) : seed \in ConvSeeds} \cup {TestAddress},
          h \in {Pattern(32, seed) : seed \in ConvSeeds} :
         inp = [a |-> a, h |-> h]
    /\ call = [op |-> "none"]
    /\ pc = "run"

\* H256::from(a)
H256FromAddress ==
    /\ pc = "run"
    /\ call' = [op |-> "h256_from_address", arg |-> inp.a,
                ret |-> h256_from_address(inp.a)]
    /\ UNCHANGED <<filter, pool, inserted, inp, pc>>

\* Address::from(h), h the digest h or the digest H256::from(a) gave
AddressFromH256 ==
    /\ pc = "run"
    /\ \E h \in IF call.op = "h256_from_address" THEN {inp.h, call.ret} ELSE {inp.h} :
         call' = [op |-> "address_from_h256", arg |-> h,
                  ret |-> address_from_h256(h)]
    /\ UNCHANGED <<filter, pool, inserted, inp, pc>>

\* H64::from(h)
H64FromH256 ==
    /\ pc = "run"
    /\ \E h \in IF call.op = "h256_from_address" THEN {inp.h, call.ret} ELSE {inp.h} :
         call' = [op |-> "h64_from_h256", arg |-> h, ret |-> h64_from_h256(h)]
    /\ UNCHANGED <<filter, pool, inserted, inp, pc>>

NextConv ==
    \/ H256FromAddress
    \/ AddressFromH256
    \/ H64FromH256

SpecConv == InitConv /\ [][NextConv]_vars

\* C9: H256::from(a) has 12 zero bytes and then the 20 bytes of a, and
\* Address::from of it is a again; Address::from(h) is bytes [12, 32) of h and
\* H64::from(h) is bytes [20, 28) of h.
C9_AddressRoundTrip ==
    /\ call.op = "h256_from_address" =>
         /\ Len(call.ret) = 32
         /\ \A i \in 0..11 : call.ret[i + 1] = 0
         /\ \A i \in 0..19 : call.ret[12 + i + 1] = call.arg[i + 1]
    /\ call.op = "address_from_h256" =>
         /\ Len(call.ret) = 20
         /\ \A i \in 12..31 : call.ret[i - 12 + 1] = call.arg[i + 1]
         /\ (\A i \in 0..11 : call.arg[i + 1] = 0)
              /\ (\A i \in 0..19 : call.arg[12 + i + 1] = inp.a[i + 1])
              => call.ret = inp.a
    /\ call.op = "h64_from_h256" =>
         /\ Len(call.ret) = 8
         /\ \A i \in 20..27 : call.ret[i - 20 + 1] = call.arg[i + 1]

\* C9 witness: the test's address, embedded and extracted again
C9_Witness ==
    /\ call.op = "address_from_h256"
    /\ inp.a = TestAddress
    /\ call.arg # inp.h
    /\ call.ret = TestAddress

\* ------------------------------------------------------------------- text

\* A &str is a sequence of characters; "U+00E9" names a character that takes
\* two bytes in UTF-8, every other character here takes one.
HexChars ==
    <<"0", "1", "2", "3", "4", "5", "6", "7", "8", "9",
      "a", "b", "c", "d", "e", "f", "A", "B", "C", "D", "E", "F">>

ByteLen(c) == IF c = "U+00E9" THEN 2 ELSE 1

\* s.len(): the length of s in bytes
RECURSIVE StrLen(_)
StrLen(s) == IF s = <<>> THEN 0 ELSE ByteLen(s[1]) + StrLen(Tail(s))

\* byte index k is a character boundary of s
IsCharBoundary(s, k) == \E j \in 0..Len(s) : StrLen(SubSeq(s, 1, j)) = k

\* the number of leading characters of s that lie before byte index k
CharsBefore(s, k) == CHOOSE j \in 0..Len(s) : StrLen(SubSeq(s, 1, j)) = k

\* clean_0x(s); &s[0..2] panics when byte 2 is inside a character
clean_0x(s) ==
    IF StrLen(s) >= 2
    THEN IF ~ IsCharBoundary(s, 2) THEN Panic
         ELSE IF SubSeq(s, 1, CharsBefore(s, 2)) = <<"0", "x">>
              THEN Ok(SubSeq(s, CharsBefore(s, 2) + 1, Len(s)))
              ELSE Ok(s)
    ELSE Ok(s)

\* clean_0x that compares characters, not a byte range
clean_0x_chars(s) ==
    IF Len(s) >= 2 /\ SubSeq(s, 1, 2) = <<"0", "x">>
    THEN Ok(SubSeq(s, 3, Len(s)))
    ELSE Ok(s)

IsHex(c) == \E i \in 1..Len(HexChars) : HexChars[i] = c

\* the value of a hex digit
HexVal(c) ==
    LET i == CHOOSE i \in 1..Len(HexChars) : HexChars[i] = c
    IN  IF i <= 16 THEN i - 1 ELSE i - 7

\* s.from_hex(): the bytes, or the error
from_hex(s) ==
    IF \E i \in 1..Len(s) : ~ IsHex(s[i])
    THEN [err |-> "InvalidHexCharacter", val |-> <<>>]
    ELSE IF Len(s) % 2 = 1
    THEN [err |-> "InvalidHexLength", val |-> <<>>]
    ELSE [err |-> "none",
          val |-> [i \in 1..(Len(s) \div 2) |->
                     HexVal(s[2 * i - 1]) * 16 + HexVal(s[2 * i])]]

\* $from::from_str(s), $from of width size
from_str(size, s) ==
    LET decode(a) ==
            IF a.err # "none" THEN a
            ELSE IF Len(a.val) # size
            THEN [err |-> "InvalidHexLength", val |-> <<>>]
            ELSE [err |-> "none", val |-> a.val]
    IN  decode(from_hex(s))

\* from_str(..).unwrap_or_else(|_| $from::new())
unwrap_or_new(size, r) == IF r.err = "none" THEN r.val ELSE new(size)

\* $from::from(s: &str), $from of width size
from_text(size, s) ==
    LET parse(c) ==
            IF ~ c.ok THEN Panic
            ELSE IF StrLen(s) % 2 = 1
            THEN Ok(unwrap_or_new(size, from_str(size, <<"0">> \o c.ret)))
            ELSE Ok(unwrap_or_new(size, from_str(size, c.ret)))
    IN  parse(clean_0x(s))

\* hex digits of pattern seed; lower and upper case occur
HexText(n, seed) == [i \in 1..n |-> HexChars[((i * 7 + seed * 3) % 22) + 1]]

\* tests::from_str: "1234567890abcdef"
TestText ==
    <<"1", "2", "3", "4", "5", "6", "7", "8", "9", "0", "a", "b", "c", "d", "e", "f">>

\* s with character k replaced by c (k = 0: s itself)
WithChar(s, k, c) == IF k \in 1..Len(s) THEN [s EXCEPT ![k] = c] ELSE s

TextLens(size) == (0..MaxExtra) \cup ((2 * size - MaxExtra)..(2 * size + 1))

\* texts for a type of width size: an optional "0x", hex digits, and at most
\* one character replaced by a letter that is no digit or by a 2-byte character
Texts(size) ==
    LET bodies == {HexText(n, seed) : n \in TextLens(size), seed \in 1..MaxSeed}
                    \cup (IF size = 8
                          THEN {SubSeq(TestText, k, 16) : k \in 1..3}
                          ELSE {})
        broken == {WithChar(b, k, c) :
                     b \in bodies, k \in 0..MaxExtra, c \in {"g", "x", "U+00E9"}}
    IN  broken \cup {<<"0", "x">> \o b : b \in broken}

InitText ==
    /\ NoBloom
    /\ \E size \in Sizes : \E s \in Texts(size) : inp = [size |-> size, s |-> s]
    /\ call = [op |-> "none"]
    /\ pc = "run"

\* $from::from_str(s): strict
FromStr ==
    /\ pc = "run"
    /\ \E r \in {from_str(inp.size, inp.s)} :
         call' = [op |-> "from_str", ok |-> TRUE, err |-> r.err, ret |-> r.val]
    /\ UNCHANGED <<filter, pool, inserted, inp, pc>>

\* $from::from(s): lenient
FromText ==
    /\ pc = "run"
    /\ \E r \in {from_text(inp.size, inp.s)} :
         /\ call' = [op |-> "from_text", ok |-> r.ok, err |-> "none", ret |-> r.ret]
         /\ pc' = IF r.ok THEN pc ELSE "aborted"
    /\ UNCHANGED <<filter, pool, inserted, inp>>

NextText ==
    \/ FromStr
    \/ FromText

SpecText == InitText /\ [][NextText]_vars

\* s without a leading "0x"
StripPrefix(s) ==
    IF Len(s) >= 2 /\ s[1] = "0" /\ s[2] = "x" THEN SubSeq(s, 3, Len(s)) ELSE s

\* s, with a "0" in front when its length is odd
PadOdd(s) == IF Len(s) % 2 = 1 THEN <<"0">> \o s ELSE s

\* strict parsing of s succeeds at width size: hex digits only, size bytes
Parses(size, s) ==
    /\ \A i \in 1..Len(s) : s[i] \in {HexChars[j] : j \in 1..Len(HexChars)}
    /\ Len(s) = 2 * size

\* the bytes of a text of hex digits
Decoded(s) ==
    [i \in 1..(Len(s) \div 2) |-> 16 * HexVal(s[2 * i - 1]) + HexVal(s[2 * i])]

\* C7: From<&str> never fails: it strips a leading "0x", pads an odd-length
\* rest with one "0", and gives what from_str gives for that text, or zero
\* when from_str fails; from_str fails exactly when the text has a character
\* that is no hex digit or does not decode to W bytes.
C7_LenientText ==
    LET W == inp.size
        t == PadOdd(StripPrefix(inp.s))
    IN  /\ call.op = "from_text" =>
             /\ call.ok
             /\ pc = "run"
             /\ call.ret = IF Parses(W, t) THEN Decoded(t) ELSE new(W)
        /\ call.op = "from_str" =>
             /\ call.err = "none" <=> Parses(W, inp.s)
             /\ call.err = "none" => call.ret = Decoded(inp.s)
             /\ call.err # "none" => call.ret = <<>>

\* the lenient constructor's result whenever it returns
C7_LenientTextWhenItReturns ==
    LET W == inp.size
        t == PadOdd(StripPrefix(inp.s))
    IN  /\ call.op = "from_text" /\ call.ok =>
             call.ret = IF Parses(W, t) THEN Decoded(t) ELSE new(W)
        /\ call.op = "from_text" /\ ~ call.ok =>
             StrLen(inp.s) > Len(inp.s)
        /\ call.op = "from_str" =>
             /\ call.err = "none" <=> Parses(W, inp.s)
             /\ call.err = "none" => call.ret = Decoded(inp.s)

====
